---- MODULE Spec2Model ----
(***************************************************************************)
(* The crossword constraint solver of crossword/generate.py                *)
(* (CrosswordCreator): node consistency, AC-3 and backtracking search,     *)
(* run as one solve() call on a puzzle drawn from a small set of grids and *)
(* vocabularies; and the breadth-first search shortest_path of             *)
(* degreesFinal.py on a small co-star graph (DegreesSpec).                 *)
(*                                                                         *)
(* Words are sequences of letters; Python offsets are 0-based, so the      *)
(* character word[k] of the source is word[k + 1] here.  Python's None is  *)
(* the empty tuple None, which is falsy like None and differs from every   *)
(* overlap pair.  Domains are lists in the source whose order comes from   *)
(* the iteration order of a set of words; they are kept here as sets, and  *)
(* wherever the source depends on that order (the stable sorts) every      *)
(* order is allowed.                                                       *)
(***************************************************************************)
EXTENDS Integers, Sequences, FiniteSets, TLC

VARIABLES
    crossword,      \* self.crossword: variables, words, iteration order of variables
    domains,        \* self.domains
    pc,             \* position inside solve()
    arcs,           \* the work list of ac3
    ac3Result,      \* what ac3 returned ("running" until it returns)
    assignment,     \* the one dict shared by every backtrack frame
    stack,          \* the backtrack frames: selected var, values still to try, entry bindings
    callPending,    \* a backtrack call was made and has not started yet
    undoPending,    \* the recursive call of line 298 returned None, line 301 is next
    result,         \* what solve() returned
    lastRevise,     \* the last revise call: arguments, domain before/after, return value
    lastConsistent, \* the last consistent call: argument and return value
    letters,        \* the grid main() prints: letter_grid of the returned assignment
    stars,          \* degreesFinal: movies[movie_id]["stars"]
    source,         \* degreesFinal: the person shortest_path starts from
    target,         \* degreesFinal: the person shortest_path looks for
    frontier,       \* degreesFinal: the QueueFrontier of nodes
    nodesExplored,  \* degreesFinal: the states already expanded
    path,           \* degreesFinal: what shortest_path returned
    dpc             \* degreesFinal: position inside shortest_path

crosswordVars == <<crossword, domains, pc, arcs, ac3Result, assignment, stack,
                   callPending, undoPending, result, lastRevise, lastConsistent,
                   letters>>

degreesVars == <<stars, source, target, frontier, nodesExplored, path, dpc>>

vars == <<crosswordVars, degreesVars>>

----------------------------------------------------------------------------
(* Bounds and inputs *)

\* Largest vocabulary (number of words in the words file).
MaxVocab == 4

ACROSS == "across"
DOWN == "down"
None == << >>

Var(i, j, direction, length) ==
    [i |-> i, j |-> j, direction |-> direction, length |-> length]

\* Two crossing slots of length 2 (an L shape).
Cross == {Var(0, 0, ACROSS, 2), Var(0, 1, DOWN, 2)}
\* Three slots in a chain: across(2) - down(2) - across(3).
Path3 == {Var(0, 0, ACROSS, 2), Var(0, 1, DOWN, 2), Var(1, 1, ACROSS, 3)}
\* A full 2x2 block: two across and two down slots, overlap graph a 4-cycle.
Square == {Var(0, 0, ACROSS, 2), Var(1, 0, ACROSS, 2),
           Var(0, 0, DOWN, 2), Var(0, 1, DOWN, 2)}
\* Two slots that do not cross.
Disjoint == {Var(0, 0, ACROSS, 2), Var(2, 0, ACROSS, 2)}
\* Three slots in a chain with the long one in the middle:
\* across(2) - down(3) - across(2).
Chain3 == {Var(0, 0, ACROSS, 2), Var(0, 1, DOWN, 3), Var(2, 1, ACROSS, 2)}

Structures == {Cross, Path3, Square, Disjoint, Chain3}

WordPool == { <<"A", "A">>, <<"A", "B">>, <<"B", "A">>, <<"B", "B">>,
              <<"A", "B", "A">>, <<"A", "A", "A">> }

Vocabularies == {W \in SUBSET WordPool : Cardinality(W) <= MaxVocab}

\* All orders in which a finite set can be iterated.
Orders(S) ==
    {s \in [1..Cardinality(S) -> S] :
        \A a, b \in 1..Cardinality(S) : a # b => s[a] # s[b]}

----------------------------------------------------------------------------
(* The puzzle structure (crossword.py: Variable, Crossword) *)

\* The cells a variable covers, first to last.
Cells(v) ==
    [k \in 1..v.length |->
        <<v.i + (IF v.direction = DOWN THEN k - 1 ELSE 0),
          v.j + (IF v.direction = ACROSS THEN k - 1 ELSE 0)>>]

\* self.crossword.overlaps[(x, y)]: None, or (index in x, index in y) of the shared cell.
Overlap(x, y) ==
    LET shared == {p \in (1..x.length) \X (1..y.length) :
                       Cells(x)[p[1]] = Cells(y)[p[2]]}
    IN  IF shared = {} THEN None
        ELSE LET p == CHOOSE q \in shared : TRUE IN <<p[1] - 1, p[2] - 1>>

\* Fillable cells of the structure that belong to no variable (runs of one
\* cell): the Disjoint grid has one at the end of its first row.
IsolatedCells(S) == IF S = Disjoint THEN {<<0, 3>>} ELSE {}

\* self.crossword.structure: the fillable cells.
Fillable(S) ==
    {Cells(v)[k] : <<v, k>> \in {q \in S \X (1..3) : q[2] <= q[1].length}}
        \cup IsolatedCells(S)

\* self.crossword.height, self.crossword.width
Height(S) ==
    1 + CHOOSE r \in {c[1] : c \in Fillable(S)} :
            \A c \in Fillable(S) : c[1] <= r
Width(S) ==
    1 + CHOOSE r \in {c[2] : c \in Fillable(S)} :
            \A c \in Fillable(S) : c[2] <= r

\* self.crossword.neighbors(var)
Neighbors(var) ==
    {v \in crossword.variables : v # var /\ Overlap(v, var) # None}

\* list(self.crossword.overlaps.keys()): every ordered pair of distinct
\* variables, in the order the nested loops over the variables inserted them.
RECURSIVE PairsFrom(_, _)
PairsFrom(order, k) ==
    IF k > Len(order) THEN << >>
    ELSE [m \in 1..(Len(order) - 1) |->
             <<order[k], SelectSeq(order, LAMBDA v : v # order[k])[m]>>]
         \o PairsFrom(order, k + 1)

OverlapKeys == PairsFrom(crossword.order, 1)

----------------------------------------------------------------------------
(* enforce_node_consistency *)

\* Variant: the length test is dropped.
SameLengthWordsKeepAll(v, words) == words

\* The words kept for v: those of v's length.
SameLengthWords(v, words) ==
    {word \in words : Len(word) = v.length}

EnforceNodeConsistency ==
    /\ pc = "node"
    /\ domains' = [v \in DOMAIN domains |-> SameLengthWords(v, domains[v])]
    /\ pc' = "ac3start"
    /\ UNCHANGED <<crossword, arcs, ac3Result, assignment, stack, callPending,
                   undoPending, result, lastRevise, lastConsistent>>
    /\ UNCHANGED <<letters, degreesVars>>

----------------------------------------------------------------------------
(* revise *)

\* Variant: the word of y's domain is read at its first letter.
HasValueFirstLetter(xWord, x, y, doms) ==
    LET overlap == Overlap(x, y)
    IN  \E yWord \in doms[y] : xWord[overlap[1] + 1] = yWord[1]

\* hasValue for xWord: some word of y's domain agrees with it at the overlap.
HasValue(xWord, x, y, doms) ==
    LET overlap == Overlap(x, y)
    IN  \E yWord \in doms[y] : xWord[overlap[1] + 1] = yWord[overlap[2] + 1]

\* Variant: a word is kept only when every word of y's domain agrees with it.
ConsistentDomainNeedsAll(x, y, doms) ==
    IF Overlap(x, y) = None THEN doms[x]
    ELSE {xWord \in doms[x] :
             \A yWord \in doms[y] :
                 xWord[Overlap(x, y)[1] + 1] = yWord[Overlap(x, y)[2] + 1]}

\* Variant: both words are read at x's offset.
ConsistentDomainSameOffset(x, y, doms) ==
    IF Overlap(x, y) = None THEN doms[x]
    ELSE {xWord \in doms[x] :
             \E yWord \in doms[y] :
                 xWord[Overlap(x, y)[1] + 1] = yWord[Overlap(x, y)[1] + 1]}

\* Variant: x and y are mixed up, the supported words of y's domain are kept.
ConsistentDomainFromY(x, y, doms) ==
    IF Overlap(x, y) = None THEN doms[x]
    ELSE {yWord \in doms[y] :
             \E xWord \in doms[x] :
                 xWord[Overlap(x, y)[1] + 1] = yWord[Overlap(x, y)[2] + 1]}

\* domains[x] after revise(x, y).
ConsistentDomain(x, y, doms) ==
    IF Overlap(x, y) = None THEN doms[x]
    ELSE {xWord \in doms[x] : HasValue(xWord, x, y, doms)}

\* Variant: the test for a missing overlap is left out of the return value.
RevisionMadeNoGuard(x, y, doms) ==
    Overlap(x, y) = None \/ \A xWord \in doms[x] : HasValue(xWord, x, y, doms)

\* The value revise(x, y) returns: revisionMade starts True and is set to
\* False when a word without support is met.
RevisionMade(x, y, doms) ==
    IF Overlap(x, y) = None THEN FALSE
    ELSE \A xWord \in doms[x] : HasValue(xWord, x, y, doms)

----------------------------------------------------------------------------
(* ac3 *)

Ac3Start ==
    /\ pc = "ac3start"
    /\ arcs' = OverlapKeys
    /\ pc' = "ac3"
    /\ UNCHANGED <<crossword, domains, ac3Result, assignment, stack, callPending,
                   undoPending, result, lastRevise, lastConsistent>>
    /\ UNCHANGED <<letters, degreesVars>>

\* The arcs appended after revise(x, y) returned True.
NeighborArcs(x, y) ==
    LET neighbors == SelectSeq(crossword.order, LAMBDA v2 : v2 # x /\ v2 # y)
    IN  [k \in 1..Len(neighbors) |-> <<neighbors[k], x>>]

\* One iteration of the while loop.
Ac3Step ==
    /\ pc = "ac3"
    /\ arcs # << >>
    /\ LET x == Head(arcs)[1]
           y == Head(arcs)[2]
           newDomain == ConsistentDomain(x, y, domains)
           revised == RevisionMade(x, y, domains)
       IN  /\ domains' = [domains EXCEPT ![x] = newDomain]
           /\ lastRevise' = [called |-> TRUE, x |-> x, y |-> y,
                             before |-> domains[x], after |-> newDomain,
                             ret |-> revised]
           /\ IF revised /\ newDomain = {}
              THEN /\ ac3Result' = "False"
                   /\ pc' = "backtrack"
                   /\ arcs' = Tail(arcs)
              ELSE /\ arcs' = IF revised THEN Tail(arcs) \o NeighborArcs(x, y)
                              ELSE Tail(arcs)
                   /\ UNCHANGED <<ac3Result, pc>>
    /\ UNCHANGED <<crossword, assignment, stack, callPending, undoPending,
                   result, lastConsistent>>
    /\ UNCHANGED <<letters, degreesVars>>

\* The while loop ends: return True.  solve() ignores the value and calls
\* backtrack(dict()).
Ac3ReturnTrue ==
    /\ pc = "ac3"
    /\ arcs = << >>
    /\ ac3Result' = "True"
    /\ pc' = "backtrack"
    /\ UNCHANGED <<crossword, domains, arcs, assignment, stack, callPending,
                   undoPending, result, lastRevise, lastConsistent>>
    /\ UNCHANGED <<letters, degreesVars>>

----------------------------------------------------------------------------
(* assignment_complete, consistent *)

\* Variant: one bound variable is enough.
AssignmentCompleteAny(a) ==
    \E v \in crossword.variables : v \in DOMAIN a /\ a[v] # << >>

\* Variant: only the variables that still have a word need one.
AssignmentCompleteWhereWords(a) ==
    \A v \in crossword.variables :
        domains[v] # {} => (v \in DOMAIN a /\ a[v] # << >>)

assignment_complete(a) ==
    \A v \in crossword.variables : v \in DOMAIN a /\ a[v] # << >>

\* Variant: the uniqueness test of the first loop is dropped.
ConsistentNoUnique(a) ==
    \A v \in DOMAIN a : v.length = Len(a[v])

\* The first loop: words unique and of the variable's length.  The second
\* loop: `if [overlap != None]` tests a one-element list, which is truthy,
\* so the character comparison of the else branch is never reached.
consistent(a) ==
    /\ \A v1, v2 \in DOMAIN a : v1 # v2 => a[v1] # a[v2]
    /\ \A v \in DOMAIN a : v.length = Len(a[v])
    /\ \A x, y \in DOMAIN a :
          x # y =>
             LET overlap == Overlap(x, y)
             IN  IF Len(<<overlap # None>>) > 0 THEN TRUE
                 ELSE a[x][overlap[1] + 1] = a[y][overlap[2] + 1]

----------------------------------------------------------------------------
(* order_domain_values, select_unassigned_variable *)

\* Variant: the agreeing words are counted instead of the conflicting ones.
NumChoicesKept(word_var, var, a) ==
    Cardinality({p \in (Neighbors(var) \ DOMAIN a) \X WordPool :
                    /\ p[2] \in domains[p[1]]
                    /\ word_var[Overlap(var, p[1])[1] + 1]
                           = p[2][Overlap(var, p[1])[2] + 1]})

\* num_choices_eliminated[word_var]
NumChoicesEliminated(word_var, var, a) ==
    Cardinality({p \in (Neighbors(var) \ DOMAIN a) \X WordPool :
                    /\ p[2] \in domains[p[1]]
                    /\ word_var[Overlap(var, p[1])[1] + 1]
                           # p[2][Overlap(var, p[1])[2] + 1]})

\* Variant: the vocabulary words of var's length are listed, not var's domain.
OrderVocabularyValues(var, a) ==
    Orders({word \in crossword.words : Len(word) = var.length})

\* The lists order_domain_values may return: the domain sorted by count,
\* words of equal count in the order the domain list holds them.
order_domain_values(var, a) ==
    {s \in Orders(domains[var]) :
        \A k \in 1..(Len(s) - 1) :
            NumChoicesEliminated(s[k], var, a)
                <= NumChoicesEliminated(s[k + 1], var, a)}

\* The variables select_unassigned_variable may return.
select_unassigned_variable(a) ==
    LET unassigned == crossword.variables \ DOMAIN a
        smallest == {v \in unassigned :
                        \A w \in unassigned :
                            Cardinality(domains[v]) <= Cardinality(domains[w])}
    IN  IF Cardinality(smallest) = 1
        THEN smallest
        ELSE {v \in unassigned :
                 \A w \in unassigned :
                     Cardinality(Neighbors(v)) >= Cardinality(Neighbors(w))}

----------------------------------------------------------------------------
(* backtrack *)

NoResult == [kind |-> "pending", value |-> << >>, order |-> << >>]

\* Entry of a backtrack call: return the assignment when complete, else
\* select the variable and order its values.  A frame also remembers the
\* bindings the call was entered with, and a returned assignment the order
\* in which the dict holds its keys (the order they were bound in).
BacktrackEnter ==
    /\ pc = "backtrack"
    /\ callPending
    /\ IF assignment_complete(assignment)
       THEN /\ result' = [kind |-> "assignment", value |-> assignment,
                            order |-> [k \in 1..Len(stack) |-> stack[k].var]]
            /\ pc' = "done"
            /\ stack' = << >>
            /\ callPending' = FALSE
       ELSE /\ \E var \in select_unassigned_variable(assignment) :
                 \E values \in order_domain_values(var, assignment) :
                     stack' = Append(stack, [var |-> var, values |-> values,
                                             entry |-> assignment])
            /\ callPending' = FALSE
            /\ UNCHANGED <<result, pc>>
    /\ UNCHANGED <<crossword, domains, arcs, ac3Result, assignment, undoPending,
                   lastRevise, lastConsistent>>
    /\ UNCHANGED <<letters, degreesVars>>

\* Variant: a kept value also replaces the domain of its variable.
BacktrackTryPruning ==
    /\ pc = "backtrack"
    /\ ~callPending /\ ~undoPending
    /\ stack # << >>
    /\ stack[Len(stack)].values # << >>
    /\ LET frame == stack[Len(stack)]
           value == Head(frame.values)
           test_assignment ==
               [v \in DOMAIN assignment \cup {frame.var} |->
                   IF v = frame.var THEN value ELSE assignment[v]]
           ok == consistent(test_assignment)
       IN  /\ lastConsistent' = [called |-> TRUE, arg |-> test_assignment, ret |-> ok]
           /\ stack' = [stack EXCEPT ![Len(stack)].values = Tail(frame.values)]
           /\ IF ok
              THEN /\ assignment' = test_assignment
                   /\ domains' = [domains EXCEPT ![frame.var] = {value}]
                   /\ callPending' = TRUE
              ELSE /\ assignment' = [v \in DOMAIN assignment \ {frame.var} |->
                                        assignment[v]]
                   /\ UNCHANGED <<callPending, domains>>
    /\ UNCHANGED <<crossword, pc, arcs, ac3Result, undoPending, result,
                   lastRevise, letters, degreesVars>>

\* One iteration of the for loop up to the recursive call (lines 294-298),
\* or through line 301 when the value is not consistent.
BacktrackTry ==
    /\ pc = "backtrack"
    /\ ~callPending /\ ~undoPending
    /\ stack # << >>
    /\ stack[Len(stack)].values # << >>
    /\ LET frame == stack[Len(stack)]
           value == Head(frame.values)
           test_assignment ==
               [v \in DOMAIN assignment \cup {frame.var} |->
                   IF v = frame.var THEN value ELSE assignment[v]]
           ok == consistent(test_assignment)
       IN  /\ lastConsistent' = [called |-> TRUE, arg |-> test_assignment, ret |-> ok]
           /\ stack' = [stack EXCEPT ![Len(stack)].values = Tail(frame.values)]
           /\ IF ok
              THEN /\ assignment' = test_assignment
                   /\ callPending' = TRUE
              ELSE /\ assignment' = [v \in DOMAIN assignment \ {frame.var} |->
                                        assignment[v]]
                   /\ UNCHANGED callPending
    /\ UNCHANGED <<crossword, domains, pc, arcs, ac3Result, undoPending, result,
                   lastRevise>>
    /\ UNCHANGED <<letters, degreesVars>>

\* Variant: the binding is not removed.
BacktrackUndoNoPop ==
    /\ pc = "backtrack"
    /\ undoPending
    /\ undoPending' = FALSE
    /\ UNCHANGED <<crossword, domains, pc, arcs, ac3Result, assignment, stack,
                   callPending, result, lastRevise, lastConsistent, letters,
                   degreesVars>>

\* Line 301 after the recursive call returned None.
BacktrackUndo ==
    /\ pc = "backtrack"
    /\ undoPending
    /\ assignment' = [v \in DOMAIN assignment \ {stack[Len(stack)].var} |->
                         assignment[v]]
    /\ undoPending' = FALSE
    /\ UNCHANGED <<crossword, domains, pc, arcs, ac3Result, stack, callPending,
                   result, lastRevise, lastConsistent>>
    /\ UNCHANGED <<letters, degreesVars>>

\* Line 302: the values are exhausted, return None to the caller (or from solve).
BacktrackFail ==
    /\ pc = "backtrack"
    /\ ~callPending /\ ~undoPending
    /\ stack # << >>
    /\ stack[Len(stack)].values = << >>
    /\ stack' = SubSeq(stack, 1, Len(stack) - 1)
    /\ IF Len(stack) = 1
       THEN /\ result' = [kind |-> "None", value |-> << >>, order |-> << >>]
            /\ pc' = "done"
            /\ UNCHANGED undoPending
       ELSE /\ undoPending' = TRUE
            /\ UNCHANGED <<result, pc>>
    /\ UNCHANGED <<crossword, domains, arcs, ac3Result, assignment, callPending,
                   lastRevise, lastConsistent>>
    /\ UNCHANGED <<letters, degreesVars>>

----------------------------------------------------------------------------
(* letter_grid, print *)

\* The value of a cell no word was written to (Python's None in `letters`).
NoLetter == "None"

\* Variant: row and column offsets are swapped.
LetterCellSwapped(variable, k) ==
    <<variable.i + (IF variable.direction = ACROSS THEN k ELSE 0),
      variable.j + (IF variable.direction = DOWN THEN k ELSE 0)>>

\* The cell (i, j) that receives word[k].
LetterCell(variable, k) ==
    <<variable.i + (IF variable.direction = DOWN THEN k ELSE 0),
      variable.j + (IF variable.direction = ACROSS THEN k ELSE 0)>>

\* The inner loop: the letters of word written to the cells of variable.
WriteWord(grid, variable, word) ==
    [c \in DOMAIN grid |->
        IF \E k \in 0..(Len(word) - 1) : LetterCell(variable, k) = c
        THEN word[1 + CHOOSE k \in 0..(Len(word) - 1) : LetterCell(variable, k) = c]
        ELSE grid[c]]

RECURSIVE WriteWords(_, _, _, _)
WriteWords(grid, a, order, n) ==
    IF n > Len(order) THEN grid
    ELSE WriteWords(WriteWord(grid, order[n], a[order[n]]), a, order, n + 1)

\* letter_grid(assignment); order is the order of assignment.items().
letter_grid(a, order) ==
    WriteWords([c \in (0..(Height(crossword.variables) - 1))
                         \X (0..(Width(crossword.variables) - 1)) |-> NoLetter],
               a, order, 1)

\* main() prints the assignment solve() returned.
PrintAssignment ==
    /\ pc = "done"
    /\ result.kind = "assignment"
    /\ letters' = letter_grid(result.value, result.order)
    /\ pc' = "printed"
    /\ UNCHANGED <<crossword, domains, arcs, ac3Result, assignment, stack,
                   callPending, undoPending, result, lastRevise, lastConsistent,
                   degreesVars>>

----------------------------------------------------------------------------
(* degreesFinal.py: shortest_path *)

\* Number of people in people.csv.
MaxPeople == 4

PersonIds == 1..MaxPeople
MovieIds == {"m1", "m2", "m3"}

\* The casts of the movies: nobody, one person or a pair.
Casts == {c \in SUBSET PersonIds : \E p, q \in PersonIds : c \subseteq {p, q}}

\* people[person_id]["movies"], as load_data fills it together with stars.
MoviesOf(person_id) == {movie_id \in MovieIds : person_id \in stars[movie_id]}

\* neighbors_for_person(person_id)
neighbors_for_person(person_id) ==
    {n \in MoviesOf(person_id) \X PersonIds : n[2] \in stars[n[1]]}

\* Node(state, parent, action); parent is << >> for None, else <<node>>.
Node(state, parent, action) ==
    [state |-> state, parent |-> parent, action |-> action]

\* QueueFrontier: add appends, remove takes the node added first.
QueueAdd(queue, nodes) == queue \o nodes
QueueFirst(queue) == Head(queue)
QueueRemove(queue) == Tail(queue)

Reverse(seq) == [k \in 1..Len(seq) |-> seq[Len(seq) + 1 - k]]

\* The while loop of lines 132-134: (action, state) from the node up to
\* the child of the root.
RECURSIVE Collect(_)
Collect(node) ==
    IF node.parent = << >> THEN << >>
    ELSE <<<<node.action, node.state>>>> \o Collect(node.parent[1])

\* Variant: the list is not reversed.
SolutionsNotReversed(node) == Collect(node)

\* solutions, as returned for the target's node.
Solutions(node) == Reverse(Collect(node))

\* The children added for node once its state is in explored.
Children(node, explored) ==
    {Node(n[2], <<node>>, n[1]) :
        n \in {q \in neighbors_for_person(node.state) : q[2] \notin explored}}

NoPath == [kind |-> "pending", value |-> << >>]

\* The state of the degrees variables while the crossword solver runs.
DegreesIdle ==
    /\ stars = << >>
    /\ source = 1
    /\ target = 1
    /\ frontier = << >>
    /\ nodesExplored = {}
    /\ path = NoPath
    /\ dpc = "idle"

\* Lines 121-125.
SpStart ==
    /\ dpc = "start"
    /\ frontier' = QueueAdd(<< >>, <<Node(source, << >>, "None")>>)
    /\ nodesExplored' = {}
    /\ dpc' = IF source = target THEN "raised" ELSE "loop"
    /\ UNCHANGED <<stars, source, target, path, crosswordVars>>

\* Lines 127-128.
SpReturnNone ==
    /\ dpc = "loop"
    /\ frontier = << >>
    /\ path' = [kind |-> "None", value |-> << >>]
    /\ dpc' = "returned"
    /\ UNCHANGED <<stars, source, target, frontier, nodesExplored, crosswordVars>>

\* Lines 129-136: the node removed is the target's.
SpReturnSolutions ==
    /\ dpc = "loop"
    /\ frontier # << >>
    /\ QueueFirst(frontier).state = target
    /\ frontier' = QueueRemove(frontier)
    /\ path' = [kind |-> "path", value |-> Solutions(QueueFirst(frontier))]
    /\ dpc' = "returned"
    /\ UNCHANGED <<stars, source, target, nodesExplored, crosswordVars>>

\* Lines 129-141: the node removed is expanded; its children are added in
\* the order the set of neighbors is iterated.
SpExpand ==
    /\ dpc = "loop"
    /\ frontier # << >>
    /\ QueueFirst(frontier).state # target
    /\ LET node == QueueFirst(frontier)
       IN  /\ nodesExplored' = nodesExplored \cup {node.state}
           /\ \E children \in Orders(Children(node, nodesExplored \cup {node.state})) :
                 frontier' = QueueAdd(QueueRemove(frontier), children)
    /\ UNCHANGED <<stars, source, target, path, dpc, crosswordVars>>

\* The crossword variables while shortest_path runs.
CrosswordIdle ==
    /\ crossword = [variables |-> {}, words |-> {}, order |-> << >>]
    /\ domains = << >>
    /\ pc = "idle"
    /\ arcs = << >>
    /\ ac3Result = "running"
    /\ assignment = << >>
    /\ stack = << >>
    /\ callPending = FALSE
    /\ undoPending = FALSE
    /\ result = NoResult
    /\ lastRevise = [called |-> FALSE, x |-> None, y |-> None,
                     before |-> {}, after |-> {}, ret |-> FALSE]
    /\ lastConsistent = [called |-> FALSE, arg |-> << >>, ret |-> FALSE]
    /\ letters = << >>

\* shortest_path(source, target) on any graph of the bounds; by symmetry
\* the source is the first person.
DegreesInit ==
    /\ stars \in [MovieIds -> Casts]
    /\ source = 1
    /\ target \in PersonIds
    /\ frontier = << >>
    /\ nodesExplored = {}
    /\ path = NoPath
    /\ dpc = "start"
    /\ CrosswordIdle

DegreesNext ==
    \/ SpStart
    \/ SpReturnNone
    \/ SpReturnSolutions
    \/ SpExpand

\* shortest_path is one sequential call: a step that can be taken is taken.
DegreesSpec == DegreesInit /\ [][DegreesNext]_vars /\ WF_vars(DegreesNext)

----------------------------------------------------------------------------
(* solve *)

Init ==
    /\ crossword \in UNION {{[variables |-> S, words |-> W, order |-> o] :
                                 W \in Vocabularies, o \in Orders(S)} :
                             S \in Structures}
    /\ domains = [v \in crossword.variables |-> crossword.words]
    /\ pc = "node"
    /\ arcs = << >>
    /\ ac3Result = "running"
    /\ assignment = << >>
    /\ stack = << >>
    /\ callPending = TRUE
    /\ undoPending = FALSE
    /\ result = NoResult
    /\ lastRevise = [called |-> FALSE, x |-> None, y |-> None,
                     before |-> {}, after |-> {}, ret |-> FALSE]
    /\ lastConsistent = [called |-> FALSE, arg |-> << >>, ret |-> FALSE]
    /\ letters = << >>
    /\ DegreesIdle

Next ==
    \/ EnforceNodeConsistency
    \/ Ac3Start
    \/ Ac3Step
    \/ Ac3ReturnTrue
    \/ BacktrackEnter
    \/ BacktrackTry
    \/ BacktrackUndo
    \/ BacktrackFail
    \/ PrintAssignment

Spec == Init /\ [][Next]_vars

\* solve() is one sequential call: a step that can be taken is taken.
FairSpec == Spec /\ WF_vars(Next)

----------------------------------------------------------------------------
(* What the constraints of the puzzle are, used to state the properties *)

\* Words x and y agree at their overlap (or do not overlap).
Agree(x, y, xWord, yWord) ==
    Overlap(x, y) # None =>
        xWord[Overlap(x, y)[1] + 1] = yWord[Overlap(x, y)[2] + 1]

\* Distinct words, right lengths, overlapping bound pairs agree.
SatisfiesConstraints(a) ==
    /\ \A v1, v2 \in DOMAIN a : v1 # v2 => a[v1] # a[v2]
    /\ \A v \in DOMAIN a : Len(a[v]) = v.length
    /\ \A x, y \in DOMAIN a : x # y => Agree(x, y, a[x], a[y])

\* Some complete assignment of vocabulary words satisfies every constraint.
SolutionExists ==
    \E a \in [crossword.variables -> crossword.words] : SatisfiesConstraints(a)

ArcConsistent ==
    \A x, y \in crossword.variables :
        (x # y /\ Overlap(x, y) # None) =>
            \A w \in domains[x] : \E w2 \in domains[y] : Agree(x, y, w, w2)

Returned == result.kind = "assignment"

----------------------------------------------------------------------------
(* Properties *)

\* C1: in every assignment solve() returns, the words of every overlapping
\* pair of variables agree at the overlap offsets.
C1_ReturnedOverlapsAgree ==
    Returned =>
        \A x, y \in crossword.variables :
            x # y => Agree(x, y, result.value[x], result.value[y])

\* C2: consistent(a) returns true exactly when the bound words are pairwise
\* distinct, have their variables' lengths and agree at every overlap of two
\* bound variables.
C2_ConsistentIffConstraints ==
    lastConsistent.called =>
        (lastConsistent.ret <=> SatisfiesConstraints(lastConsistent.arg))

\* C3: whenever ac3 has returned True the domains are arc consistent.
C3_ArcConsistentOnSuccess ==
    ac3Result = "True" => ArcConsistent

\* C4: ac3 terminates: once started, its loop is eventually left.
C4_Ac3Terminates ==
    (pc = "ac3") ~> (pc # "ac3")

\* C5: when a revise step of ac3 has emptied domain(x), ac3 has stopped at
\* that step with the result False.
C5_EmptiedDomainFails ==
    (lastRevise.called /\ lastRevise.before # {} /\ lastRevise.after = {})
        => ac3Result = "False"

\* C6: revise returns True exactly when it removed a word from domain(x).
C6_ReviseReturnsRemoval ==
    lastRevise.called =>
        (lastRevise.ret <=> lastRevise.after # lastRevise.before)

\* C7: solve() returns None only when no complete assignment satisfies the
\* constraints.
C7_NoneOnlyIfUnsolvable ==
    result.kind = "None" => ~SolutionExists

\* A solvable puzzle on which solve() has returned.
C7_Witness ==
    pc \in {"done", "printed"} /\ SolutionExists /\ Returned

\* C8: in every assignment solve() returns, no two distinct variables hold
\* the same word.
C8_ReturnedWordsDistinct ==
    Returned =>
        \A v1, v2 \in DOMAIN result.value :
            v1 # v2 => result.value[v1] # result.value[v2]

\* An assignment was returned although two variables had a word in common
\* in their domains.
C8_Witness ==
    /\ Returned
    /\ \E v1, v2 \in crossword.variables :
          v1 # v2 /\ domains[v1] \cap domains[v2] # {}

\* C9: every assignment solve() returns binds every variable to a non-empty
\* word of the variable's length.
C9_ReturnedComplete ==
    Returned =>
        \A v \in crossword.variables :
            /\ v \in DOMAIN result.value
            /\ result.value[v] # << >>
            /\ Len(result.value[v]) = v.length

\* An assignment was returned for a puzzle of three variables of two lengths.
C9_Witness ==
    /\ Returned
    /\ Cardinality(crossword.variables) >= 3
    /\ \E v1, v2 \in crossword.variables : v1.length # v2.length

\* C10: after enforce_node_consistency has run, every word of every domain
\* has its variable's length.
C10_DomainLengths ==
    pc # "node" =>
        \A v \in crossword.variables :
            \A word \in domains[v] : Len(word) = v.length

\* The search is over, node consistency removed a word from some domain
\* and left another word in it.
C10_Witness ==
    /\ pc \in {"done", "printed"}
    /\ \E v \in crossword.variables :
          /\ domains[v] # {}
          /\ \E word \in crossword.words : Len(word) # v.length

\* C11: every step of solve() leaves each variable's domain a subset of
\* what it was before the step.
C11_MonotonePruning ==
    [][\A v \in crossword.variables : domains'[v] \subseteq domains[v]]_vars

\* A revise step of ac3 removed a word from a domain that node consistency
\* had already narrowed, and left a word in it.
C11_Witness ==
    /\ lastRevise.called
    /\ lastRevise.after # lastRevise.before
    /\ lastRevise.after # {}
    /\ lastRevise.before # crossword.words

\* Propagation is over and has left some variable without a word.
EmptiedDomain ==
    /\ pc \in {"backtrack", "done", "printed"}
    /\ \E v \in crossword.variables : domains[v] = {}

\* A backtrack call has started.
SearchEntered == stack # << >> \/ pc \in {"done", "printed"}

GridCells ==
    (0..(Height(crossword.variables) - 1)) \X (0..(Width(crossword.variables) - 1))

Covering(c) ==
    {v \in DOMAIN result.value : \E k \in 1..v.length : Cells(v)[k] = c}

\* The letter of v's word at cell c.
LetterOf(v, c) ==
    result.value[v][CHOOSE k \in 1..v.length : Cells(v)[k] = c]

\* The position of v in the order of the returned assignment.
Position(v) == CHOOSE n \in 1..Len(result.order) : result.order[n] = v

\* C13 as stated: letter_grid returns a height-by-width grid; a cell covered
\* by an assigned variable holds that variable's letter at the cell's
\* offset, a fillable cell covered by none holds blank, and a non-fillable
\* cell holds a sentinel distinct from blank.
C13_LetterGridWithSentinel ==
    pc = "printed" =>
        /\ DOMAIN letters = GridCells
        /\ \A c \in GridCells :
              /\ \A v \in Covering(c) : letters[c] = LetterOf(v, c)
              /\ (c \in Fillable(crossword.variables) /\ Covering(c) = {})
                    => letters[c] = NoLetter
              /\ c \notin Fillable(crossword.variables) => letters[c] # NoLetter

\* C13 as amended: letter_grid returns a height-by-width grid; a cell
\* covered by assigned variables holds the letter, at the cell's offset, of
\* the covering variable that comes last in the assignment, and every other
\* cell, fillable or not, holds None.
C13_LetterGridLastWriter ==
    pc = "printed" =>
        /\ DOMAIN letters = GridCells
        /\ \A c \in GridCells :
              IF Covering(c) = {} THEN letters[c] = NoLetter
              ELSE \E v \in Covering(c) :
                      /\ \A w \in Covering(c) : Position(w) <= Position(v)
                      /\ letters[c] = LetterOf(v, c)

\* A grid was printed that has a non-fillable cell and a cell on which two
\* assigned words disagree.
C13_Witness ==
    /\ pc = "printed"
    /\ \E c \in GridCells : c \notin Fillable(crossword.variables)
    /\ \E c \in GridCells :
          \E v, w \in Covering(c) : LetterOf(v, c) # LetterOf(w, c)

\* The newest backtrack frame has selected its variable and ordered its
\* values, and has tried none of them yet.
JustSelected ==
    /\ pc = "backtrack"
    /\ ~callPending /\ ~undoPending
    /\ stack # << >>
    /\ Len(stack[Len(stack)].values) = Cardinality(domains[stack[Len(stack)].var])

Degree(v) ==
    Cardinality({w \in crossword.variables : w # v /\ Overlap(v, w) # None})

\* C15: select_unassigned_variable returns an unbound variable of minimum
\* domain size, and among the unbound variables of that size one with the
\* most neighbors.
C15_SelectMinimumRemainingValues ==
    JustSelected =>
        LET frame == stack[Len(stack)]
            unassigned == crossword.variables \ DOMAIN frame.entry
            tied == {v \in unassigned :
                        \A w \in unassigned :
                            Cardinality(domains[v]) <= Cardinality(domains[w])}
        IN  /\ frame.var \in tied
            /\ \A w \in tied : Degree(frame.var) >= Degree(w)

\* The number of pairs (unassigned neighbor, word of its domain) whose word
\* differs from `word` at the overlap with var.
EliminationCount(word, var, a) ==
    Cardinality({p \in (crossword.variables \ (DOMAIN a \cup {var})) \X WordPool :
                    /\ Overlap(var, p[1]) # None
                    /\ p[2] \in domains[p[1]]
                    /\ ~Agree(var, p[1], word, p[2])})

\* C16: order_domain_values returns every word of the variable's domain
\* exactly once, in non-decreasing order of its elimination count over the
\* unassigned neighbors.
C16_ValuesOrderedByEliminations ==
    JustSelected =>
        LET frame == stack[Len(stack)]
        IN  /\ Len(frame.values) = Cardinality(domains[frame.var])
            /\ {frame.values[k] : k \in 1..Len(frame.values)} = domains[frame.var]
            /\ \A k \in 1..(Len(frame.values) - 1) :
                  EliminationCount(frame.values[k], frame.var, frame.entry)
                      <= EliminationCount(frame.values[k + 1], frame.var, frame.entry)

\* Values were ordered for a variable with a bound neighbor and an unbound
\* one, and two of the values have different counts.
C16_Witness ==
    /\ JustSelected
    /\ LET frame == stack[Len(stack)]
       IN  /\ \E n \in Neighbors(frame.var) : n \in DOMAIN frame.entry
           /\ \E n \in Neighbors(frame.var) : n \notin DOMAIN frame.entry
           /\ \E w1, w2 \in domains[frame.var] :
                 EliminationCount(w1, frame.var, frame.entry)
                     # EliminationCount(w2, frame.var, frame.entry)

\* The next step is revise(x, y) on the first arc of the work list.
ReviseNext == pc = "ac3" /\ arcs # << >>

\* C17: for x and y with an overlap, revise(x, y) leaves in domain(x)
\* exactly the words that some word of domain(y) agrees with, and changes
\* no other domain.
C17_ReviseKeepsSupportedWords ==
    [][(ReviseNext /\ Overlap(Head(arcs)[1], Head(arcs)[2]) # None) =>
          LET x == Head(arcs)[1]
              y == Head(arcs)[2]
          IN  /\ domains'[x] = {w \in domains[x] :
                                   \E w2 \in domains[y] : Agree(x, y, w, w2)}
              /\ \A v \in crossword.variables \ {x} : domains'[v] = domains[v]]_vars

\* revise(x, y) on an overlapping pair removed some words of domain(x) and
\* kept others, with domain(y) not empty.
C17_Witness ==
    /\ lastRevise.called
    /\ Overlap(lastRevise.x, lastRevise.y) # None
    /\ domains[lastRevise.y] # {}
    /\ lastRevise.after # lastRevise.before
    /\ lastRevise.after # {}

\* C18: for two variables without overlap, revise(x, y) returns False and
\* changes no domain.
C18_ReviseWithoutOverlap ==
    [][(ReviseNext /\ Overlap(Head(arcs)[1], Head(arcs)[2]) = None) =>
          /\ domains' = domains
          /\ lastRevise'.ret = FALSE]_vars

\* revise(x, y) was called on a pair without overlap with words in both
\* domains.
C18_Witness ==
    /\ lastRevise.called
    /\ Overlap(lastRevise.x, lastRevise.y) = None
    /\ domains[lastRevise.x] # {}
    /\ domains[lastRevise.y] # {}
    /\ ~lastRevise.ret

\* C19: a backtrack call that is about to try a value or to return None
\* holds exactly the bindings it was entered with; when a recursive call has
\* just returned None the bindings are those it was entered with (the
\* caller's plus the selected variable); solve() returns None with the
\* assignment empty again.
C19_UndoRestoresEntryBindings ==
    /\ (pc = "backtrack" /\ ~callPending /\ ~undoPending /\ stack # << >>)
          => assignment = stack[Len(stack)].entry
    /\ (pc = "backtrack" /\ undoPending)
          => /\ DOMAIN assignment
                   = DOMAIN stack[Len(stack)].entry \cup {stack[Len(stack)].var}
             /\ \A v \in DOMAIN stack[Len(stack)].entry :
                   assignment[v] = stack[Len(stack)].entry[v]
    /\ result.kind = "None" => assignment = << >>

\* A recursive call that tried a value has returned None to a caller that
\* has another value to try.
C19_Witness ==
    /\ pc = "backtrack"
    /\ undoPending
    /\ stack[Len(stack)].values # << >>
    /\ ~lastConsistent.ret

\* C20: no step of the backtracking search changes a domain.
C20_SearchKeepsDomains ==
    [][pc = "backtrack" => domains' = domains]_vars

\* The search returned an assignment after reading domains with several
\* words and rejecting a value.
C20_Witness ==
    /\ Returned
    /\ \E v \in crossword.variables : Cardinality(domains[v]) >= 2
    /\ \E v \in crossword.variables :
          \E n \in 1..Len(result.order) :
             /\ result.order[n] = v
             /\ \E w \in domains[v] :
                   /\ w # result.value[v]
                   /\ \E m \in 1..(n - 1) : result.value[result.order[m]] = w

\* The people within n co-starring steps of the source.
RECURSIVE Within(_)
Within(n) ==
    IF n = 0 THEN {source}
    ELSE LET nearer == Within(n - 1)
         IN  nearer \cup {q \in PersonIds :
                            \E m \in MovieIds : \E r \in nearer :
                                r \in stars[m] /\ q \in stars[m]}

Reachable == target \in Within(Cardinality(PersonIds))

\* The least number of steps from the source to the target.
Distance ==
    CHOOSE n \in 0..Cardinality(PersonIds) :
        target \in Within(n) /\ \A k \in 0..(n - 1) : target \notin Within(k)

\* steps is a chain of (movie_id, person_id) from the source to the target:
\* each movie stars the person before it and the person it leads to.
ValidChain(steps) ==
    /\ Len(steps) >= 1
    /\ steps[Len(steps)][2] = target
    /\ \A k \in 1..Len(steps) :
          /\ steps[k][2] \in stars[steps[k][1]]
          /\ (IF k = 1 THEN source ELSE steps[k - 1][2]) \in stars[steps[k][1]]

\* C14: for source different from target shortest_path terminates; it
\* returns a valid chain of the least possible number of steps when the
\* target is reachable and None when it is not.
C14_ShortestPath ==
    /\ [](dpc = "returned" =>
            IF Reachable
            THEN /\ path.kind = "path"
                 /\ ValidChain(path.value)
                 /\ Len(path.value) = Distance
            ELSE path.kind = "None")
    /\ (source # target => <>(dpc = "returned"))

\* A chain of two steps was returned on a graph where two movies share a
\* cast of two, so that a person is reached through both.
C14_Witness ==
    /\ dpc = "returned"
    /\ path.kind = "path"
    /\ Len(path.value) = 2
    /\ \E m1, m2 \in MovieIds :
          m1 # m2 /\ stars[m1] = stars[m2] /\ Cardinality(stars[m1]) = 2

\* C21: whenever node consistency and ac3 leave a variable with an empty
\* domain, solve() never holds an assignment to return and does return None.
C21_EmptyDomainReturnsNone ==
    /\ [](EmptiedDomain => ~Returned)
    /\ (EmptiedDomain ~> (pc = "done" /\ result.kind = "None"))

\* solve() returned None for two overlapping slots that both had words of
\* their length, after revise had taken the last word of one of them.
C21_Witness ==
    /\ pc = "done"
    /\ result.kind = "None"
    /\ \E x, y \in crossword.variables :
          /\ x # y
          /\ Overlap(x, y) # None
          /\ domains[x] = {}
          /\ SameLengthWords(x, crossword.words) # {}
          /\ SameLengthWords(y, crossword.words) # {}

\* The complete assignments of vocabulary words that satisfy every length,
\* distinctness and overlap constraint.
PuzzleSolutions ==
    {a \in [crossword.variables -> crossword.words] : SatisfiesConstraints(a)}

\* C22: enforce_node_consistency and ac3 never remove from a variable's
\* domain a word the variable holds in some complete assignment that
\* satisfies all length, distinctness and overlap constraints.
C22_PruningSound ==
    \A a \in PuzzleSolutions : \A v \in crossword.variables : a[v] \in domains[v]

\* ac3 is over on a puzzle that has a solution, and revise has removed a
\* word of the right length from some domain.
C22_Witness ==
    /\ pc = "backtrack"
    /\ PuzzleSolutions # {}
    /\ \E v \in crossword.variables :
          domains[v] # SameLengthWords(v, crossword.words)

====
